---- MODULE Spec2Model ----
(***************************************************************************)
(* Position mapping of prosemirror-py: prosemirror/transform/map.py.       *)
(*                                                                         *)
(* StepMap is a table of (start, oldSize, newSize) triples plus a          *)
(* direction flag; Mapping is a chain of StepMaps with a mirror table and  *)
(* a [from_, to) window.  Python lists are 0-based: At(s, i) reads s[i].   *)
(* Python's None is the empty sequence, a present value v is <<v>>.        *)
(***************************************************************************)
EXTENDS Integers, Sequences, FiniteSets, TLC

VARIABLES stepmap, mapping, out

vars == <<stepmap, mapping, out>>

\* ------------------------------------------------------------------ bounds
MaxRanges == 2
MaxStart == 2
MaxSize == 2
MaxMaps == 3

\* ------------------------------------------------------- python primitives
None == <<>>
Some(v) == <<v>>
At(s, i) == s[i + 1]

RECURSIVE BitAnd(_, _)
BitAnd(a, b) ==
    IF a = 0 \/ b = 0 THEN 0
    ELSE (IF a % 2 = 1 /\ b % 2 = 1 THEN 1 ELSE 0) + 2 * BitAnd(a \div 2, b \div 2)

RECURSIVE BitOr(_, _)
BitOr(a, b) ==
    IF a = 0 THEN b
    ELSE IF b = 0 THEN a
    ELSE (IF a % 2 = 1 \/ b % 2 = 1 THEN 1 ELSE 0) + 2 * BitOr(a \div 2, b \div 2)

\* ------------------------------------------------------- recovery tokens
lower16 == 65535
factor16 == 65536

make_recover(index, offset) == index + offset * factor16

recover_index(value) == BitAnd(value, lower16)

recover_offset(value) == (value - BitAnd(value, lower16)) \div factor16

DEL_BEFORE == 1
DEL_AFTER == 2
DEL_ACROSS == 4
DEL_SIDE == 8

MapResult(pos, del_info, recover) ==
    [pos |-> pos, del_info |-> del_info, recover |-> recover]

deleted(r) == BitAnd(r.del_info, DEL_SIDE) > 0
deleted_before(r) == BitAnd(r.del_info, BitOr(DEL_BEFORE, DEL_ACROSS)) > 0
deleted_after(r) == BitAnd(r.del_info, BitOr(DEL_AFTER, DEL_ACROSS)) > 0
deleted_across(r) == BitAnd(r.del_info, DEL_ACROSS) > 0

\* ---------------------------------------------------------------- StepMap
StepMap(ranges, inverted) == [ranges |-> ranges, inverted |-> inverted]

StepMap_empty == StepMap(<<>>, FALSE)

old_index(m) == IF m.inverted THEN 2 ELSE 1
new_index(m) == IF m.inverted THEN 1 ELSE 2

\* Side with the start boundary following the bias.
Side_StartFollowsBias(old_size, pos, start, end, assoc) ==
    IF old_size = 0 THEN assoc
    ELSE IF pos = end /\ pos # start THEN 1
    ELSE assoc

\* StepMap._map, lines 109-116: the side a position inside [start, end] takes.
Side(old_size, pos, start, end, assoc) ==
    IF old_size = 0 THEN assoc
    ELSE IF pos = start THEN -1
    ELSE IF pos = end THEN 1
    ELSE assoc

\* MapHit with the DEL_SIDE test reading the wrong boundary for each bias.
MapHit_SideSwapped(i, pos, assoc, start, end, diff, old_size, new_size) ==
    LET side == Side(old_size, pos, start, end, assoc)
        result == start + diff + (IF side < 0 THEN 0 ELSE new_size)
        recover == IF pos = (IF assoc < 0 THEN start ELSE end)
                   THEN None
                   ELSE Some(make_recover(i \div 3, pos - start))
        del0 == IF pos = start THEN DEL_AFTER
                ELSE IF pos = end THEN DEL_BEFORE ELSE DEL_ACROSS
        del_info == IF (IF assoc < 0 THEN pos # end ELSE pos # start)
                    THEN BitOr(del0, DEL_SIDE)
                    ELSE del0
    IN  MapResult(result, del_info, recover)

\* StepMap._map, lines 117-132: the result for the range at i holding pos.
MapHit(i, pos, assoc, start, end, diff, old_size, new_size) ==
    LET side == Side(old_size, pos, start, end, assoc)
        result == start + diff + (IF side < 0 THEN 0 ELSE new_size)
        recover == IF pos = (IF assoc < 0 THEN start ELSE end)
                   THEN None
                   ELSE Some(make_recover(i \div 3, pos - start))
        del0 == IF pos = start THEN DEL_AFTER
                ELSE IF pos = end THEN DEL_BEFORE ELSE DEL_ACROSS
        del_info == IF (IF assoc < 0 THEN pos # start ELSE pos # end)
                    THEN BitOr(del0, DEL_SIDE)
                    ELSE del0
    IN  MapResult(result, del_info, recover)

\* NextDiff that forgets the range just passed.
NextDiff_Dropped(diff, old_size, new_size) == diff

\* StepMap._map, line 133: diff after a range that lies before pos.
NextDiff(diff, old_size, new_size) == diff + new_size - old_size

\* StepMap._map, lines 101-134: the scan from table offset i with diff.
RECURSIVE MapScan(_, _, _, _, _)
MapScan(m, pos, assoc, i, diff) ==
    IF i >= Len(m.ranges) THEN MapResult(pos + diff, 0, None)
    ELSE LET start == At(m.ranges, i) - (IF m.inverted THEN diff ELSE 0)
         IN  IF start > pos THEN MapResult(pos + diff, 0, None)
             ELSE LET old_size == At(m.ranges, i + old_index(m))
                      new_size == At(m.ranges, i + new_index(m))
                      end == start + old_size
                  IN  IF pos <= end
                      THEN MapHit(i, pos, assoc, start, end, diff, old_size, new_size)
                      ELSE MapScan(m, pos, assoc, i + 3, NextDiff(diff, old_size, new_size))

StepMap_map_result(m, pos, assoc) == MapScan(m, pos, assoc, 0, 0)

StepMap_map(m, pos, assoc) == MapScan(m, pos, assoc, 0, 0).pos

\* recover that lands on the range start, dropping the packed offset.
StepMap_recover_NoOffset(m, value) == At(m.ranges, recover_index(value) * 3)

\* StepMap.recover, lines 77-83.
RECURSIVE RecoverDiff(_, _)
RecoverDiff(m, index) ==
    IF index = 0 THEN 0
    ELSE RecoverDiff(m, index - 1)
         + At(m.ranges, (index - 1) * 3 + 2) - At(m.ranges, (index - 1) * 3 + 1)

StepMap_recover(m, value) ==
    LET index == recover_index(value)
        diff == IF ~m.inverted THEN RecoverDiff(m, index) ELSE 0
    IN  At(m.ranges, index * 3) + diff + recover_offset(value)

\* StepMap.touches, lines 136-150.  The loop is range(len(self.ranges), 3):
\* i runs from len(ranges) up to 2 in steps of one.  raised is the IndexError
\* of reading self.ranges past the end; ret is the value returned otherwise.
Returned(v) == [raised |-> FALSE, ret |-> v]
IndexError == [raised |-> TRUE, ret |-> FALSE]

RECURSIVE TouchesScan(_, _, _, _, _)
TouchesScan(m, pos, index, i, diff) ==
    IF i >= 3 THEN Returned(FALSE)
    ELSE IF i >= Len(m.ranges) THEN IndexError
    ELSE LET start == At(m.ranges, i) - (IF m.inverted THEN diff ELSE 0)
         IN  IF start > pos THEN Returned(FALSE)
             ELSE IF i + 2 >= Len(m.ranges) THEN IndexError
             ELSE LET old_size == At(m.ranges, i + old_index(m))
                      end == start + old_size
                  IN  IF pos <= end /\ i = index * 3 THEN Returned(TRUE)
                      ELSE TouchesScan(m, pos, index, i + 1,
                                       diff + At(m.ranges, i + new_index(m)) - old_size)

StepMap_touches(m, pos, recover) ==
    TouchesScan(m, pos, recover_index(recover), Len(m.ranges), 0)

\* StepMap.for_each, lines 152-164: the calls f(old_start, old_end,
\* new_start, new_end) in order.  diff is set to 0 and never assigned again.
RECURSIVE ForEachScan(_, _, _)
ForEachScan(m, i, diff) ==
    IF i >= Len(m.ranges) THEN <<>>
    ELSE LET start == At(m.ranges, i)
             old_start == start - (IF m.inverted THEN diff ELSE 0)
             new_start == start + (IF m.inverted THEN 0 ELSE diff)
             old_size == At(m.ranges, i + old_index(m))
             new_size == At(m.ranges, i + new_index(m))
         IN  <<<<old_start, old_start + old_size, new_start, new_start + new_size>>>>
             \o ForEachScan(m, i + 3, diff)

StepMap_for_each(m) == ForEachScan(m, 0, 0)

\* invert that keeps the direction.
StepMap_invert_SameDirection(m) == StepMap(m.ranges, m.inverted)

StepMap_invert(m) == StepMap(m.ranges, ~m.inverted)

\* ---------------------------------------------------------------- Mapping
\* Mapping.__init__, lines 177-187.  mirror None and mirror [] are both
\* falsy everywhere the class reads them; both are the empty sequence here.
Mapping(maps, mirror, from_, to) ==
    [maps |-> maps, mirror |-> mirror, from_ |-> from_, to |-> to]

Mapping_new == Mapping(<<>>, <<>>, 0, 0)

slice(self, from_, to) == Mapping(self.maps, self.mirror, from_, to)

copy(self) == Mapping(self.maps, self.mirror, self.from_, self.to)

\* Mapping.get_mirror, lines 219-224: the first slot holding n decides.
RECURSIVE GetMirrorScan(_, _, _)
GetMirrorScan(mirror, n, i) ==
    IF i >= Len(mirror) THEN None
    ELSE IF At(mirror, i) = n
         THEN Some(At(mirror, i + (IF i % 2 = 1 THEN -1 ELSE 1)))
         ELSE GetMirrorScan(mirror, n, i + 1)

get_mirror(self, n) == GetMirrorScan(self.mirror, n, 0)

set_mirror(self, n, m) == [self EXCEPT !.mirror = self.mirror \o <<n, m>>]

append_map(self, map, mirrors) ==
    LET grown == [self EXCEPT !.maps = Append(self.maps, map),
                              !.to = Len(self.maps) + 1]
    IN  IF mirrors # None
        THEN set_mirror(grown, Len(grown.maps) - 1, mirrors[1])
        ELSE grown

\* Mapping.append_mapping, lines 208-217: i is incremented before
\* mapping.maps[i] is read.  raised is the IndexError of that read; self is
\* the receiver as the call leaves it.
RECURSIVE AppendMappingLoop(_, _, _, _)
AppendMappingLoop(self, mapping_, i, start_size) ==
    IF i >= Len(mapping_.maps) THEN [raised |-> FALSE, self |-> self]
    ELSE LET mirr == get_mirror(mapping_, i)
             i1 == i + 1
         IN  IF i1 >= Len(mapping_.maps) THEN [raised |-> TRUE, self |-> self]
             ELSE AppendMappingLoop(
                      append_map(self, At(mapping_.maps, i1),
                                 IF mirr # None /\ mirr[1] < i1
                                 THEN Some(start_size + mirr[1]) ELSE None),
                      mapping_, i1, start_size)

append_mapping(self, mapping_) ==
    AppendMappingLoop(self, mapping_, 0, Len(self.maps))

\* InvertedMirror off by one.
InvertedMirror_OffByOne(total_size, mirr) == total_size - mirr

\* Mapping.append_mapping_inverted, line 238: the mirror index in the
\* reversed chain.
InvertedMirror(total_size, mirr) == total_size - mirr - 1

\* Mapping.append_mapping_inverted, lines 231-240.
RECURSIVE AppendMappingInvertedLoop(_, _, _, _)
AppendMappingInvertedLoop(self, mapping_, i, total_size) ==
    IF i < 0 THEN self
    ELSE LET mirr == get_mirror(mapping_, i)
         IN  AppendMappingInvertedLoop(
                 append_map(self, StepMap_invert(At(mapping_.maps, i)),
                            IF mirr # None /\ mirr[1] > i
                            THEN Some(InvertedMirror(total_size, mirr[1])) ELSE None),
                 mapping_, i - 1, total_size)

append_mapping_inverted(self, mapping_) ==
    AppendMappingInvertedLoop(self, mapping_, Len(mapping_.maps) - 1,
                              Len(self.maps) + Len(mapping_.maps))

Mapping_invert(self) == append_mapping_inverted(Mapping_new, self)

\* Mapping._map, lines 263-280.
RECURSIVE MappingScan(_, _, _, _, _)
MappingScan(self, pos, assoc, i, del_info) ==
    IF i >= self.to THEN MapResult(pos, del_info, None)
    ELSE LET map == At(self.maps, i)
             result == StepMap_map_result(map, pos, assoc)
             corr == IF result.recover # None THEN get_mirror(self, i) ELSE None
         IN  IF corr # None /\ corr[1] > i /\ corr[1] < self.to
             THEN MappingScan(self,
                              StepMap_recover(At(self.maps, corr[1]), result.recover[1]),
                              assoc, corr[1] + 1, del_info)
             ELSE MappingScan(self, result.pos, assoc, i + 1,
                              BitOr(del_info, result.del_info))

\* Mapping.map, lines 250-252: the plain fold when there is no mirror.
RECURSIVE MappingFold(_, _, _, _)
MappingFold(self, pos, assoc, i) ==
    IF i >= self.to THEN pos
    ELSE MappingFold(self, StepMap_map(At(self.maps, i), pos, assoc), assoc, i + 1)

Mapping_map(self, pos, assoc) ==
    IF self.mirror # <<>>
    THEN MappingScan(self, pos, assoc, self.from_, 0).pos
    ELSE MappingFold(self, pos, assoc, self.from_)

Mapping_map_result(self, pos, assoc) ==
    MappingScan(self, pos, assoc, self.from_, 0)

\* ----------------------------------------------------------------- inputs
\* Range tables sorted by start and non-overlapping in the forward space:
\* every start is at least the previous range's start + oldSize.
RECURSIVE TablesFrom(_, _)
TablesFrom(lo, k) ==
    IF k = 0 THEN {<<>>}
    ELSE UNION { { <<s, o, n>> \o rest : rest \in TablesFrom(s + o, k - 1) } :
                 <<s, o, n>> \in (lo..MaxStart) \X (0..MaxSize) \X (0..MaxSize) }

\* The range of the boundary examples: start 5, two units replaced by four.
ExampleTable == <<5, 2, 4>>

Tables == UNION { TablesFrom(0, k) : k \in 0..MaxRanges } \cup {ExampleTable}

Assocs == {-1, 1}

RECURSIVE Extent(_, _)
Extent(ranges, i) ==
    IF i >= Len(ranges) THEN 0
    ELSE At(ranges, i + 1) + At(ranges, i + 2) + Extent(ranges, i + 3)

\* Positions up to one past every coordinate the table can produce.
Positions(m) ==
    IF m.ranges = <<>> THEN 0..1
    ELSE 0..(At(m.ranges, Len(m.ranges) - 3) + Extent(m.ranges, 0) + 1)

\* Range indexes that fit the lower 16 bits, and the first two that do not.
RecoverIndexes == (0..MaxRanges) \cup {lower16, factor16, factor16 + 1}

\* The steps a chain is built from: one edit at ChainStart that deletes,
\* inserts or replaces 0 or MaxSize units.
ChainStart == 1
ChainSizes == {0, MaxSize}
ChainMaps == { StepMap(<<ChainStart, o, n>>, FALSE) : o \in ChainSizes, n \in ChainSizes }

ChainPositions == 0..(ChainStart + MaxSize + 1)

\* The arguments of append_mapping: chains of at most two steps, the second
\* optionally registered as the mirror of the first.
Others ==
    {Mapping_new}
    \cup { append_map(Mapping_new, a, None) : a \in ChainMaps }
    \cup { append_map(append_map(Mapping_new, a, None), b, mr) :
           <<a, b, mr>> \in ChainMaps \X ChainMaps \X {None, Some(0)} }

\* Indexes of self that have no mirror yet.
Unmirrored(self) == { n \in 0..(Len(self.maps) - 1) : get_mirror(self, n) = None }

\* ---------------------------------------------------------------- actions
\* The operations that only read: they leave stepmap and mapping as they
\* are, so whatever can follow them can also follow the state they were
\* called in.  The model records their result in out and explores the next
\* operation from the states a constructor or a mutator left.
Queries == {"StepMap.map", "StepMap.map_result", "StepMap.touches", "StepMap.for_each",
            "make_recover", "Mapping.map", "Mapping.map_result", "Mapping.invert",
            "Mapping.copy"}

Idle == out.op \notin Queries

InitStepMap ==
    /\ stepmap \in { StepMap(t, inv) : t \in Tables, inv \in BOOLEAN }
    /\ mapping = Mapping_new
    /\ out = [op |-> "init"]

Init ==
    /\ stepmap = StepMap_empty
    /\ mapping = Mapping_new
    /\ out = [op |-> "init"]

\* StepMap.map(pos, assoc)
DoStepMapMap ==
    /\ Idle
    /\ \E pos \in Positions(stepmap), assoc \in Assocs :
           /\ out' = [op |-> "StepMap.map", pos |-> pos, assoc |-> assoc,
                      r |-> StepMap_map(stepmap, pos, assoc)]
           /\ UNCHANGED <<stepmap, mapping>>

\* StepMap.map_result(pos, assoc)
DoStepMapMapResult ==
    /\ Idle
    /\ \E pos \in Positions(stepmap), assoc \in Assocs :
           /\ out' = [op |-> "StepMap.map_result", pos |-> pos, assoc |-> assoc,
                      r |-> StepMap_map_result(stepmap, pos, assoc)]
           /\ UNCHANGED <<stepmap, mapping>>

\* StepMap.touches(pos, recover), the token naming any range index.
DoTouches ==
    /\ Idle
    /\ \E pos \in Positions(stepmap), index \in 0..MaxRanges :
           LET token == make_recover(index, 0)
           IN  /\ out' = [op |-> "StepMap.touches", pos |-> pos, token |-> token,
                          r |-> StepMap_touches(stepmap, pos, token)]
               /\ UNCHANGED <<stepmap, mapping>>

\* StepMap.for_each(f), f recording its calls.
DoForEach ==
    /\ Idle
    /\ out' = [op |-> "StepMap.for_each", r |-> StepMap_for_each(stepmap)]
    /\ UNCHANGED <<stepmap, mapping>>

\* make_recover(index, offset); the function has no raise statement.
DoMakeRecover ==
    /\ Idle
    /\ \E index \in RecoverIndexes, offset \in 0..MaxSize :
           /\ out' = [op |-> "make_recover", index |-> index, offset |-> offset,
                      raised |-> FALSE, r |-> make_recover(index, offset)]
           /\ UNCHANGED <<stepmap, mapping>>

\* Mapping.append_map(map, mirrors)
DoAppendMap ==
    /\ Idle
    /\ \E m \in ChainMaps, mirrors \in {None} \cup { Some(n) : n \in Unmirrored(mapping) } :
           /\ Len(mapping.maps) < MaxMaps
           /\ mapping' = append_map(mapping, m, mirrors)
           /\ out' = [op |-> "Mapping.append_map"]
           /\ UNCHANGED stepmap

\* Mapping.append_mapping(other)
DoAppendMapping ==
    /\ Idle
    /\ \E other \in Others :
           /\ Len(mapping.maps) + Len(other.maps) <= MaxMaps
           /\ LET call == append_mapping(mapping, other)
              IN  /\ mapping' = call.self
                  /\ out' = [op |-> "Mapping.append_mapping", before |-> mapping,
                             other |-> other, raised |-> call.raised]
           /\ UNCHANGED stepmap

\* Mapping.slice(from_, to): the view takes the place of the chain.
DoSlice ==
    /\ Idle
    /\ \E t \in 0..Len(mapping.maps) : \E f \in 0..t :
           /\ mapping' = slice(mapping, f, t)
           /\ out' = [op |-> "Mapping.slice"]
           /\ UNCHANGED stepmap

\* Mapping.invert()
DoInvert ==
    /\ Idle
    /\ out' = [op |-> "Mapping.invert", before |-> mapping, r |-> Mapping_invert(mapping)]
    /\ UNCHANGED <<stepmap, mapping>>

\* Mapping.copy()
DoCopy ==
    /\ Idle
    /\ out' = [op |-> "Mapping.copy", before |-> mapping, r |-> copy(mapping)]
    /\ UNCHANGED <<stepmap, mapping>>

\* Mapping.map(pos, assoc)
DoMappingMap ==
    /\ Idle
    /\ \E pos \in ChainPositions, assoc \in Assocs :
           /\ out' = [op |-> "Mapping.map", pos |-> pos, assoc |-> assoc,
                      r |-> Mapping_map(mapping, pos, assoc)]
           /\ UNCHANGED <<stepmap, mapping>>

\* Mapping.map_result(pos, assoc)
DoMappingMapResult ==
    /\ Idle
    /\ \E pos \in ChainPositions, assoc \in Assocs :
           /\ out' = [op |-> "Mapping.map_result", pos |-> pos, assoc |-> assoc,
                      r |-> Mapping_map_result(mapping, pos, assoc)]
           /\ UNCHANGED <<stepmap, mapping>>

NextStepMap ==
    \/ DoStepMapMap
    \/ DoStepMapMapResult
    \/ DoTouches
    \/ DoForEach
    \/ DoMakeRecover
    \/ DoMappingMap

Next ==
    \/ DoAppendMap
    \/ DoAppendMapping
    \/ DoSlice
    \/ DoInvert
    \/ DoCopy
    \/ DoMappingMap
    \/ DoMappingMapResult

\* A StepMap drawn from the bounded tables, and the operations on it.
SpecStepMap == InitStepMap /\ [][NextStepMap]_vars

\* A Mapping built step by step, and the operations on it.
Spec == Init /\ [][Next]_vars

\* ------------------------------------------------- the ranges as documented
\* The k-th range (k from 0) of a StepMap in the direction the flag selects:
\* the stored start is an old-space coordinate of the forward map, so the
\* inverted map's old start is the stored start moved by the forward size
\* changes of the ranges before it.
NRanges(m) == Len(m.ranges) \div 3

OldSizeOf(m, k) == At(m.ranges, 3 * k + (IF m.inverted THEN 2 ELSE 1))
NewSizeOf(m, k) == At(m.ranges, 3 * k + (IF m.inverted THEN 1 ELSE 2))

RECURSIVE ForwardDiffBefore(_, _)
ForwardDiffBefore(m, k) ==
    IF k = 0 THEN 0
    ELSE ForwardDiffBefore(m, k - 1)
         + At(m.ranges, 3 * (k - 1) + 2) - At(m.ranges, 3 * (k - 1) + 1)

DiffBefore(m, k) == IF m.inverted THEN 0 - ForwardDiffBefore(m, k) ELSE ForwardDiffBefore(m, k)

OldStartOf(m, k) ==
    At(m.ranges, 3 * k) + (IF m.inverted THEN ForwardDiffBefore(m, k) ELSE 0)
OldEndOf(m, k) == OldStartOf(m, k) + OldSizeOf(m, k)
NewStartOf(m, k) == OldStartOf(m, k) + DiffBefore(m, k)
NewEndOf(m, k) == NewStartOf(m, k) + NewSizeOf(m, k)

RangeIds(m) == 0..(NRanges(m) - 1)
InSpan(m, k, pos) == OldStartOf(m, k) <= pos /\ pos <= OldEndOf(m, k)
InNoSpan(m, pos) == \A k \in RangeIds(m) : ~InSpan(m, k, pos)
StrictlyInside(m, pos) ==
    \E k \in RangeIds(m) : OldStartOf(m, k) < pos /\ pos < OldEndOf(m, k)

\* The first range whose closed old span holds pos: the one the scan stops at.
IsHit(m, k, pos) ==
    /\ k \in RangeIds(m)
    /\ InSpan(m, k, pos)
    /\ \A j \in 0..(k - 1) : ~InSpan(m, j, pos)

RECURSIVE SumBefore(_, _, _)
SumBefore(m, pos, k) ==
    IF k = 0 THEN 0
    ELSE SumBefore(m, pos, k - 1)
         + (IF OldEndOf(m, k - 1) < pos THEN NewSizeOf(m, k - 1) - OldSizeOf(m, k - 1) ELSE 0)

Example == StepMap(ExampleTable, FALSE)

\* ------------------------------------------------------------------ claims

\* C1: for a position in no range's closed old span, StepMap.map returns the
\* position plus the size changes of exactly the ranges that end before it,
\* for both biases; range (5,2,4) maps 3 to 3 and 10 to 12; a StepMap with no
\* ranges and a Mapping with no maps return the position unchanged.
C1_SizeConservation ==
    /\ (out.op = "StepMap.map" /\ InNoSpan(stepmap, out.pos))
           => out.r = out.pos + SumBefore(stepmap, out.pos, NRanges(stepmap))
    /\ (out.op = "StepMap.map" /\ stepmap.ranges = <<>>) => out.r = out.pos
    /\ (out.op = "StepMap.map" /\ stepmap = Example /\ out.pos = 3) => out.r = 3
    /\ (out.op = "StepMap.map" /\ stepmap = Example /\ out.pos = 10) => out.r = 12
    /\ (out.op = "Mapping.map" /\ mapping.maps = <<>>) => out.r = out.pos

C1_Witness ==
    /\ out.op = "StepMap.map"
    /\ NRanges(stepmap) = 2
    /\ stepmap.inverted
    /\ out.pos > OldEndOf(stepmap, 1)
    /\ NewSizeOf(stepmap, 0) > OldSizeOf(stepmap, 0)
    /\ NewSizeOf(stepmap, 1) > OldSizeOf(stepmap, 1)
    /\ out.r > out.pos + 1

\* C3 as written: at the start of a range with oldSize > 0 the result follows
\* the bias (start+diff for -1, start+diff+newSize for +1); at the old end it
\* is start+diff+newSize for both.
C3_Original ==
    out.op = "StepMap.map" =>
        \A k \in RangeIds(stepmap) :
            (IsHit(stepmap, k, out.pos) /\ OldSizeOf(stepmap, k) > 0) =>
                /\ out.pos = OldStartOf(stepmap, k) =>
                       out.r = (IF out.assoc < 0 THEN NewStartOf(stepmap, k)
                                                 ELSE NewEndOf(stepmap, k))
                /\ out.pos = OldEndOf(stepmap, k) => out.r = NewEndOf(stepmap, k)

\* C3 amended: at the start of a range with oldSize > 0 the result is
\* start+diff for both biases, at its old end start+diff+newSize for both;
\* range (5,2,4) maps 5 to 5 and 7 to 9 whatever the bias.
C3_BoundaryBias ==
    /\ out.op = "StepMap.map" =>
           \A k \in RangeIds(stepmap) :
               (IsHit(stepmap, k, out.pos) /\ OldSizeOf(stepmap, k) > 0) =>
                   /\ out.pos = OldStartOf(stepmap, k) => out.r = NewStartOf(stepmap, k)
                   /\ out.pos = OldEndOf(stepmap, k) => out.r = NewEndOf(stepmap, k)
    /\ (out.op = "StepMap.map" /\ stepmap = Example /\ out.pos = 5) => out.r = 5
    /\ (out.op = "StepMap.map" /\ stepmap = Example /\ out.pos = 7) => out.r = 9

C3_Witness ==
    /\ out.op = "StepMap.map"
    /\ stepmap = Example
    /\ out.pos = 5
    /\ out.assoc = 1
    /\ out.r = 5

PureDeletionEdge(m, pos) ==
    \E k \in RangeIds(m) :
        /\ NewSizeOf(m, k) = 0
        /\ OldSizeOf(m, k) > 0
        /\ pos \in {OldStartOf(m, k), OldEndOf(m, k)}

RoundTrip == StepMap_map(StepMap_invert(stepmap), out.r, 0 - out.assoc)

\* C5 as written: for every position not strictly inside a deleted span,
\* pure insertions and pure deletions included, mapping with bias a and then
\* through the inverted map with bias -a gives the position back.
C5_Original ==
    (out.op = "StepMap.map" /\ ~StrictlyInside(stepmap, out.pos)) => RoundTrip = out.pos

\* C5 amended: the round trip m.invert().map(m.map(p, a), -a) = p holds for
\* every position that is neither strictly inside a deleted span nor at
\* either end of a pure deletion (newSize = 0 < oldSize).
C5_InversionRoundTrip ==
    (/\ out.op = "StepMap.map"
     /\ ~StrictlyInside(stepmap, out.pos)
     /\ ~PureDeletionEdge(stepmap, out.pos)) => RoundTrip = out.pos

C5_Witness ==
    /\ out.op = "StepMap.map"
    /\ NRanges(stepmap) = 2
    /\ OldSizeOf(stepmap, 0) = 0
    /\ NewSizeOf(stepmap, 0) > 0
    /\ out.pos = OldStartOf(stepmap, 0)
    /\ out.assoc = 1
    /\ out.r > out.pos
    /\ RoundTrip = out.pos

BaseFlags(r) == BitAnd(r.del_info, BitOr(BitOr(DEL_BEFORE, DEL_AFTER), DEL_ACROSS))

\* C6: map_result of a position in the closed old span of the range the scan
\* stops at carries exactly one of DEL_AFTER (pos = start), DEL_BEFORE (pos =
\* end, not start) and DEL_ACROSS (strictly inside); DEL_SIDE exactly when
\* pos is not the boundary the bias names; a recover token exactly when
\* DEL_SIDE is set.  A position in no range has del_info 0 and no token.
C6_DeletionFlags ==
    out.op = "StepMap.map_result" =>
        /\ \A k \in RangeIds(stepmap) :
               IsHit(stepmap, k, out.pos) =>
                   LET start == OldStartOf(stepmap, k)
                       end == OldEndOf(stepmap, k)
                       onBias == out.pos = (IF out.assoc < 0 THEN start ELSE end)
                   IN  /\ BaseFlags(out.r) =
                              (IF out.pos = start THEN DEL_AFTER
                               ELSE IF out.pos = end THEN DEL_BEFORE ELSE DEL_ACROSS)
                       /\ deleted(out.r) <=> ~onBias
                       /\ (out.r.recover # None) <=> deleted(out.r)
                       /\ out.r.del_info < 2 * DEL_SIDE
        /\ InNoSpan(stepmap, out.pos) => (out.r.del_info = 0 /\ out.r.recover = None)

C6_Witness ==
    /\ out.op = "StepMap.map_result"
    /\ StrictlyInside(stepmap, out.pos)
    /\ out.r.del_info = DEL_ACROSS + DEL_SIDE
    /\ out.r.recover # None

\* C8: make_recover raises when the range index does not fit the lower 16
\* bits, so every token it returns unpacks to the index and offset packed.
C8_LoudOverflow ==
    out.op = "make_recover" =>
        /\ out.index >= factor16 => out.raised
        /\ ~out.raised => (/\ recover_index(out.r) = out.index
                           /\ recover_offset(out.r) = out.offset)

\* C9: touches(pos, token) returns True exactly when pos lies in the closed
\* old span of the range whose index the token packs, and never raises.
C9_Touches ==
    out.op = "StepMap.touches" =>
        /\ ~out.r.raised
        /\ out.r.ret <=> (/\ recover_index(out.token) \in RangeIds(stepmap)
                          /\ InSpan(stepmap, recover_index(out.token), out.pos))

\* Ranges that do not touch: each starts after the one before it ends.
Separated(m) ==
    \A k \in RangeIds(m) : k > 0 => OldStartOf(m, k) > OldEndOf(m, k - 1)

\* C10: for_each reports every range once, in order, with oldEnd - oldStart
\* its old size, newEnd - newStart its new size and newStart - oldStart the
\* size changes of the ranges before it, so that map(oldStart, -1) is
\* newStart and map(oldEnd, +1) is newEnd.
C10_ForEach ==
    out.op = "StepMap.for_each" =>
        /\ Len(out.r) = NRanges(stepmap)
        /\ \A k \in RangeIds(stepmap) :
               LET c == out.r[k + 1]
               IN  /\ c[2] - c[1] = OldSizeOf(stepmap, k)
                   /\ c[4] - c[3] = NewSizeOf(stepmap, k)
                   /\ c[3] - c[1] = DiffBefore(stepmap, k)
                   /\ Separated(stepmap) =>
                          /\ StepMap_map(stepmap, c[1], -1) = c[3]
                          /\ StepMap_map(stepmap, c[2], 1) = c[4]

IsQuery == out.op \in {"Mapping.map", "Mapping.map_result"}
ResultPos == IF out.op = "Mapping.map" THEN out.r ELSE out.r.pos

\* Step i deletes n > 0 units at s, the later step j puts n units back at s,
\* the two are mirrors inside [from_, to), and no step before i has a mirror.
DeleteReinsert(i, j) ==
    /\ i \in mapping.from_..(mapping.to - 1)
    /\ j \in (i + 1)..(mapping.to - 1)
    /\ get_mirror(mapping, i) = Some(j)
    /\ LET a == At(mapping.maps, i)
           b == At(mapping.maps, j)
       IN  /\ ~a.inverted /\ ~b.inverted
           /\ Len(a.ranges) = 3 /\ Len(b.ranges) = 3
           /\ a.ranges[2] > 0 /\ a.ranges[3] = 0
           /\ b.ranges[1] = a.ranges[1] /\ b.ranges[2] = 0 /\ b.ranges[3] = a.ranges[2]
    /\ \A k \in mapping.from_..(i - 1) : get_mirror(mapping, k) = None

\* The position that reaches step i: the plain fold of the steps before it.
Arriving(i) == MappingFold(slice(mapping, mapping.from_, i), out.pos, out.assoc, mapping.from_)

Inside(i, p) ==
    LET a == At(mapping.maps, i).ranges
    IN  a[1] < p /\ p < a[1] + a[2]

\* C2: a position strictly inside the span deleted by step i is carried
\* through the mirror step j: map and map_result continue at step j+1 with
\* the position at its original offset in the reinserted span, skipping the
\* steps between i and j, instead of collapsing to the deletion boundary.
C2_MirrorRecovery ==
    IsQuery =>
        \A i, j \in 0..(Len(mapping.maps) - 1) :
            (DeleteReinsert(i, j) /\ Inside(i, Arriving(i))) =>
                /\ ResultPos = Mapping_map(slice(mapping, j + 1, mapping.to),
                                           Arriving(i), out.assoc)
                /\ j + 1 = mapping.to => ResultPos = Arriving(i)

C2_Witness ==
    /\ out.op = "Mapping.map"
    /\ mapping.from_ = 0
    /\ mapping.to = 3
    /\ DeleteReinsert(0, 2)
    /\ At(mapping.maps, 1) = At(mapping.maps, 2)
    /\ Inside(0, out.pos)
    /\ out.r = out.pos

\* C4: append_mapping of a chain with at least one map, no mirrors on either
\* side, completes without error, leaves maps as the old maps followed by
\* the other chain's maps, and the combined chain maps every position as
\* the old chain followed by the other chain does.
C4_AppendMapping ==
    (/\ out.op = "Mapping.append_mapping"
     /\ out.before.mirror = <<>>
     /\ out.other.mirror = <<>>
     /\ Len(out.other.maps) >= 1) =>
        /\ ~out.raised
        /\ mapping.maps = out.before.maps \o out.other.maps
        /\ \A p \in ChainPositions, a \in Assocs :
               Mapping_map(mapping, p, a) =
                   Mapping_map(out.other, Mapping_map(out.before, p, a), a)

\* C7: invert() returns a fresh chain and leaves the receiver as it was; the
\* result holds the same number of maps, its k-th map is the receiver's
\* (n-1-k)-th with the same table and the flag negated, and index n-1-i has
\* the mirror n-1-j exactly when i has the mirror j in the receiver.
C7_Invert ==
    out.op = "Mapping.invert" =>
        LET c == out.before
            r == out.r
            n == Len(c.maps)
        IN  /\ mapping = c
            /\ Len(r.maps) = n
            /\ \A k \in 0..(n - 1) :
                   /\ At(r.maps, k).ranges = At(c.maps, n - 1 - k).ranges
                   /\ At(r.maps, k).inverted = ~At(c.maps, n - 1 - k).inverted
            /\ \A i \in 0..(n - 1) :
                   get_mirror(r, n - 1 - i) =
                       (IF get_mirror(c, i) = None THEN None
                        ELSE Some(n - 1 - get_mirror(c, i)[1]))

C7_Witness ==
    /\ out.op = "Mapping.invert"
    /\ Len(out.before.maps) = 3
    /\ get_mirror(out.before, 0) = Some(2)
    /\ get_mirror(out.r, 0) = Some(2)
    /\ At(out.before.maps, 0) # At(out.before.maps, 2)
    /\ At(out.r.maps, 0).inverted

====
